---- MODULE Spec2Model ----
(***************************************************************************)
(* A model of the file-protection service of this repository:              *)
(*   crypto_utils.py  AES-GCM file encryption and the proof-of-work ledger  *)
(*                    (class Blockchain)                                    *)
(*                                                                          *)
(* A Python str is a sequence of tokens (a character, or a word that is    *)
(* never split, such as a key of a dict), so that formatting (json.dumps,   *)
(* isoformat, str of an int) is computed, not assumed.                      *)
(* SHA-256 is modelled as an ideal hash: the digest of a message is        *)
(* `difficulty` leading hex digits computed from a checksum of the message, *)
(* followed by the message itself, so two messages never collide while the *)
(* number of leading zeros still depends on every character hashed.        *)
(***************************************************************************)
EXTENDS Integers, Sequences, FiniteSets, TLC

(***************************************************************************)
(* Bounds of the model.                                                     *)
(***************************************************************************)
MaxCalls == 3       \* create_block and add_transaction calls after construction

(***************************************************************************)
(* Program constants.                                                       *)
(***************************************************************************)
difficulty == 4
KEY_SIZE == 32
SALT_SIZE == 16
NONCE_SIZE == 12
TAG_SIZE == 16

Threads == {"t1", "t2"}
MainThread == "t1"

VARIABLES
    chain,                  \* Blockchain.chain
    pending_transactions,   \* Blockchain.pending_transactions
    now,                    \* datetime.now(), in seconds
    pc,                     \* per thread: where its current call stands
    frame,                  \* per thread: the locals of its create_block call, and as
                            \* history what the call found: the buffer, whether the
                            \* previous_hash passed was the hash of the tip
    ret,                    \* per thread: what its last call returned
    evt,                    \* history: number of append events so far
    pendingEvt,             \* history: event number of each pending transaction
    chainEvt,               \* history: event numbers of each block and its transactions,
                            \* whether the block was created with the hash of the tip
    tampered,               \* history: the edit made to a stored block behind the API, if any
    fs,                     \* the files: path -> bytes, or NoFile
    cres,                   \* the last encrypt_file / decrypt_file call and its outcome
    sealed,                 \* history: key and plaintext of the last encrypt_file
    blobEdit,               \* history: what was altered in the encrypted file, if anything
    store,                  \* the directories of the application: path -> bytes
    web,                    \* the request being served by a route handler, and its response
    kept,                   \* history: the encrypted files /encrypt made, each with the
                            \* name, password and salt of its request
    email_status_db,        \* scheduler.email_status_db: job id -> status record
    jobs,                   \* the jobs of the BackgroundScheduler: its job id -> the call to make
    outbox,                 \* history: the messages the mail server accepted, in order
    issued,                 \* number of uuid4 values drawn so far
    cancelLog               \* history: the job ids whose cancellation returned "cancelled"

ledgerVars == <<chain, pending_transactions, now, pc, frame, ret, evt, pendingEvt, chainEvt>>

\* what no call on the ledger touches
cipherVars == <<fs, cres, sealed, blobEdit>>

\* what the route handlers of app.py keep
appVars == <<store, web, kept>>

\* what scheduler.py keeps
schedVars == <<email_status_db, jobs, outbox, issued, cancelLog>>

nonLedgerVars == <<tampered, cipherVars, appVars, schedVars>>

vars == <<ledgerVars, nonLedgerVars>>

(***************************************************************************)
(* Strings and formatting.                                                  *)
(***************************************************************************)
HexChars == <<"0", "1", "2", "3", "4", "5", "6", "7", "8", "9", "a", "b", "c", "d", "e", "f">>

Alphabet ==
    HexChars \o
    << "r", "s", "T", " ", "{", "}", "[", "]", ":", ",", "\"",
       "data", "hash", "index", "nonce", "previous_hash", "timestamp", "transactions",
       "file_info", "recipient", "sender", "signature", "enc_hash", "filename",
       "Genesis Block", "None" >>

AlphabetSet == {Alphabet[i] : i \in 1..Len(Alphabet)}

\* the number a token contributes to a checksum: its position in the alphabet
CharCode == [c \in AlphabetSet |-> CHOOSE i \in 1..Len(Alphabet) : Alphabet[i] = c]

Max(a, b) == IF a >= b THEN a ELSE b

RECURSIVE IntToStr(_)
\* str(n) for n >= 0: the decimal digits
IntToStr(n) ==
    IF n < 10 THEN <<HexChars[n + 1]>>
    ELSE IntToStr(n \div 10) \o <<HexChars[(n % 10) + 1]>>

\* '0' * n
Zeros(n) == [i \in 1..n |-> "0"]

\* s.startswith(p)
StartsWith(s, p) == Len(s) >= Len(p) /\ SubSeq(s, 1, Len(p)) = p

\* datetime.now().isoformat(timespec="seconds"), the clock read being t
IsoFormat(t) ==
    <<"T">> \o (IF t < 10 THEN <<"0">> ELSE <<>>) \o IntToStr(t)

NoneVal == <<"None">>

(***************************************************************************)
(* json.dumps                                                               *)
(***************************************************************************)
Quote == "\""

JsonStr(s) == <<Quote>> \o s \o <<Quote>>

\* the keys a payload dict may carry, in sorted order, with their spelling
PayloadKeys == <<"enc_hash", "filename">>

KeyChars ==
    [enc_hash |-> <<"enc_hash">>,
     filename |-> <<"filename">>]

RECURSIVE JsonItems(_, _, _, _, _)
\* the items of dict d from the k-th sorted key on
JsonItems(d, k, itemSep, keySep, first) ==
    IF k > Len(PayloadKeys) THEN <<>>
    ELSE IF PayloadKeys[k] \in DOMAIN d
         THEN (IF first THEN <<>> ELSE itemSep)
              \o JsonStr(KeyChars[PayloadKeys[k]]) \o keySep \o JsonStr(d[PayloadKeys[k]])
              \o JsonItems(d, k + 1, itemSep, keySep, FALSE)
         ELSE JsonItems(d, k + 1, itemSep, keySep, first)

\* json.dumps(d, sort_keys=True, separators=(itemSep, keySep)) of a dict of strings
JsonDict(d, itemSep, keySep) == <<"{">> \o JsonItems(d, 1, itemSep, keySep, TRUE) \o <<"}">>

\* a block's data is a str or a dict
JsonData(data, itemSep, keySep) ==
    IF data.type = "dict" THEN JsonDict(data.val, itemSep, keySep) ELSE JsonStr(data.val)

K_data == <<"data">>
K_hash == <<"hash">>
K_index == <<"index">>
K_nonce == <<"nonce">>
K_previous_hash == <<"previous_hash">>
K_timestamp == <<"timestamp">>
K_transactions == <<"transactions">>
K_file_info == <<"file_info">>
K_recipient == <<"recipient">>
K_sender == <<"sender">>
K_signature == <<"signature">>

\* a transaction, compact separators, keys sorted
JsonTx(tx) ==
    <<"{">>
    \o JsonStr(K_file_info) \o <<":">> \o JsonDict(tx.file_info, <<",">>, <<":">>) \o <<",">>
    \o JsonStr(K_recipient) \o <<":">> \o JsonStr(tx.recipient) \o <<",">>
    \o JsonStr(K_sender) \o <<":">> \o JsonStr(tx.sender) \o <<",">>
    \o JsonStr(K_signature) \o <<":">> \o JsonStr(tx.signature) \o <<",">>
    \o JsonStr(K_timestamp) \o <<":">> \o JsonStr(tx.timestamp)
    \o <<"}">>

RECURSIVE JsonTxList(_, _)
JsonTxList(txs, k) ==
    IF k > Len(txs) THEN <<>>
    ELSE (IF k > 1 THEN <<",">> ELSE <<>>) \o JsonTx(txs[k]) \o JsonTxList(txs, k + 1)

\* json.dumps(block, sort_keys=True, separators=(",", ":"))
JsonBlock(b) ==
    <<"{">>
    \o JsonStr(K_data) \o <<":">> \o JsonData(b.data, <<",">>, <<":">>) \o <<",">>
    \o JsonStr(K_hash) \o <<":">> \o JsonStr(b.hash) \o <<",">>
    \o JsonStr(K_index) \o <<":">> \o IntToStr(b.index) \o <<",">>
    \o JsonStr(K_nonce) \o <<":">> \o IntToStr(b.nonce) \o <<",">>
    \o JsonStr(K_previous_hash) \o <<":">> \o JsonStr(b.previous_hash) \o <<",">>
    \o JsonStr(K_timestamp) \o <<":">> \o JsonStr(b.timestamp) \o <<",">>
    \o JsonStr(K_transactions) \o <<":">> \o <<"[">> \o JsonTxList(b.transactions, 1) \o <<"]">>
    \o <<"}">>

(***************************************************************************)
(* hashlib.sha256(...).hexdigest()                                          *)
(***************************************************************************)
\* the positions of the message whose token has a code of r modulo difficulty + 1
Residue(msg, r) == {k \in 1..Len(msg) : CharCode[msg[k]] % (difficulty + 1) = r}

\* a checksum of the message: the sum of the codes of its tokens,
\* modulo difficulty + 1
Checksum(msg) ==
    (Cardinality(Residue(msg, 1)) + 2 * Cardinality(Residue(msg, 2))
     + 3 * Cardinality(Residue(msg, 3)) + 4 * Cardinality(Residue(msg, 4)))
    % (difficulty + 1)

\* the leading hex digits of the digest: for checksum m the digest starts with
\* difficulty - m zeros
LeadingDigits(m) == [k \in 1..difficulty |-> HexChars[Max(0, k - (difficulty - m)) + 1]]

Sha256Hex(msg) == LeadingDigits(Checksum(msg)) \o msg

(***************************************************************************)
(* AES-GCM (Crypto.Cipher.AES, MODE_GCM), as an ideal authenticated cipher: *)
(* the ciphertext is the plaintext XORed with a key stream that depends on  *)
(* key, nonce and position; the tag is a keyed encoding of the nonce, the   *)
(* length of the ciphertext and the ciphertext folded to three bytes, so    *)
(* that for ciphertexts of up to three bytes no two (nonce, ciphertext)     *)
(* pairs share a tag under one key, and no two keys share a tag.            *)
(***************************************************************************)
RECURSIVE BitXor(_, _)
BitXor(a, b) ==
    IF a = 0 THEN b
    ELSE IF b = 0 THEN a
    ELSE ((a + b) % 2) + 2 * BitXor(a \div 2, b \div 2)

RECURSIVE ByteSum(_, _)
ByteSum(bytes, k) ==
    IF k > Len(bytes) THEN 0 ELSE (bytes[k] + ByteSum(bytes, k + 1)) % 256

KeyStream(key, nonce, i) ==
    (31 * ByteSum(key, 1) + 17 * ByteSum(nonce, 1) + 13 * i) % 256

KeyByte(key, j) == (7 * key[((j - 1) % Len(key)) + 1] + j) % 256

\* cipher.encrypt / cipher.decrypt: counter mode, the same in both directions
GcmCrypt(key, nonce, text) ==
    [i \in 1..Len(text) |-> BitXor(text[i], KeyStream(key, nonce, i))]

RECURSIVE Fold(_, _)
\* the XOR of the bytes at positions k, k + 3, k + 6, ...
Fold(bytes, k) ==
    IF k > Len(bytes) THEN 0 ELSE BitXor(bytes[k], Fold(bytes, k + 3))

\* the tag of (nonce, ciphertext) under the key
GcmTag(key, nonce, ciphertext) ==
    [j \in 1..TAG_SIZE |->
        BitXor(KeyByte(key, j),
               IF j <= NONCE_SIZE THEN (IF j <= Len(nonce) THEN nonce[j] ELSE 0)
               ELSE IF j = NONCE_SIZE + 1 THEN Len(ciphertext) % 256
               ELSE Fold(ciphertext, j - NONCE_SIZE - 1))]

\* blob[a:b] of Python, a and b counted from 0
Slice(blob, a, b) ==
    IF a >= Len(blob) THEN <<>>
    ELSE SubSeq(blob, a + 1, IF b < Len(blob) THEN b ELSE Len(blob))

(***************************************************************************)
(* class Blockchain                                                         *)
(***************************************************************************)
\* dict.get(k): None when the key is absent
DictGet(d, k) == IF k \in DOMAIN d THEN d[k] ELSE NoneVal

\* isinstance(data, dict)
IsDict(data) == data.type = "dict"

StrData(s) == [type |-> "str", val |-> s]
DictData(d) == [type |-> "dict", val |-> d]

GenesisData == StrData(<<"Genesis Block">>)

\* Blockchain._hash_block: the block is hashed with its hash field emptied
hash_block(block) == Sha256Hex(JsonBlock([block EXCEPT !.hash = <<>>]))

\* a bug to be detected: the loop accepts one zero less
PowFound_OneShort(block, nonce) ==
    StartsWith(hash_block([block EXCEPT !.nonce = nonce]), Zeros(difficulty - 1))

\* the test of the proof-of-work loop for one nonce
\* a bug to be detected: nonce 0 is never accepted
PowFound_SkipsZero(block, nonce) ==
    /\ nonce >= 1
    /\ StartsWith(hash_block([block EXCEPT !.nonce = nonce]), Zeros(difficulty))

PowFound(block, nonce) ==
    StartsWith(hash_block([block EXCEPT !.nonce = nonce]), Zeros(difficulty))

RECURSIVE PowSearch(_, _)
PowSearch(block, nonce) ==
    IF PowFound(block, nonce) THEN nonce ELSE PowSearch(block, nonce + 1)

\* Blockchain.proof_of_work: the first nonce from 0 whose hash has the zeros
proof_of_work(block) == PowSearch(block, 0)

\* the candidate block create_block builds
\* a bug to be detected: indices counted from zero
NewBlock_ZeroBased(c, pending, t, data, previous_hash) ==
    [index |-> Len(c),
     timestamp |-> IsoFormat(t),
     data |-> data,
     previous_hash |-> previous_hash,
     nonce |-> 0,
     hash |-> <<>>,
     transactions |-> pending]

\* a bug to be detected: the pending transactions are not copied into the block
NewBlock_NoTransactions(c, pending, t, data, previous_hash) ==
    [index |-> Len(c) + 1,
     timestamp |-> IsoFormat(t),
     data |-> data,
     previous_hash |-> previous_hash,
     nonce |-> 0,
     hash |-> <<>>,
     transactions |-> <<>>]

NewBlock(c, pending, t, data, previous_hash) ==
    [index |-> Len(c) + 1,
     timestamp |-> IsoFormat(t),
     data |-> data,
     previous_hash |-> previous_hash,
     nonce |-> 0,
     hash |-> <<>>,
     transactions |-> pending]

\* a bug to be detected: the hash is taken before the nonce is stored
SealBlock_HashFirst(block, nonce) ==
    [block EXCEPT !.hash = hash_block(block), !.nonce = nonce]

\* the candidate with the nonce found and its hash stored
SealBlock(block, nonce) ==
    LET mined == [block EXCEPT !.nonce = nonce]
    IN  [mined EXCEPT !.hash = hash_block(mined)]

\* Blockchain._create_signature
create_signature(sender, recipient, file_info) ==
    Sha256Hex(sender \o recipient \o JsonDict(file_info, <<",", " ">>, <<":", " ">>))

\* the transaction add_transaction builds
NewTransaction(sender, recipient, file_info, t) ==
    [sender |-> sender,
     recipient |-> recipient,
     file_info |-> file_info,
     timestamp |-> IsoFormat(t),
     signature |-> create_signature(sender, recipient, file_info)]

\* Blockchain.last
last(c) == c[Len(c)]

RECURSIVE VerifyFrom_NoIntegrity(_, _)
\* a bug to be detected: the stored hash is not compared with the recomputed one
VerifyFrom_NoIntegrity(c, i) ==
    IF i > Len(c) THEN TRUE
    ELSE IF c[i].previous_hash # c[i - 1].hash THEN FALSE
    ELSE IF ~StartsWith(c[i].hash, Zeros(difficulty)) THEN FALSE
    ELSE VerifyFrom_NoIntegrity(c, i + 1)

RECURSIVE VerifyFrom_NoPow(_, _)
\* a bug to be detected: the leading zeros are not checked
VerifyFrom_NoPow(c, i) ==
    IF i > Len(c) THEN TRUE
    ELSE IF c[i].previous_hash # c[i - 1].hash THEN FALSE
    ELSE IF c[i].hash # hash_block(c[i]) THEN FALSE
    ELSE VerifyFrom_NoPow(c, i + 1)

RECURSIVE VerifyFrom_NoLink(_, _)
\* a bug to be detected: previous_hash is not compared with the predecessor's hash
VerifyFrom_NoLink(c, i) ==
    IF i > Len(c) THEN TRUE
    ELSE IF c[i].hash # hash_block(c[i]) THEN FALSE
    ELSE IF ~StartsWith(c[i].hash, Zeros(difficulty)) THEN FALSE
    ELSE VerifyFrom_NoLink(c, i + 1)

RECURSIVE VerifyFrom(_, _)
\* the loop of verify_chain from position i (the genesis block is position 1)
VerifyFrom(c, i) ==
    IF i > Len(c) THEN TRUE
    ELSE IF c[i].previous_hash # c[i - 1].hash THEN FALSE
    ELSE IF c[i].hash # hash_block(c[i]) THEN FALSE
    ELSE IF ~StartsWith(c[i].hash, Zeros(difficulty)) THEN FALSE
    ELSE VerifyFrom(c, i + 1)

\* Blockchain.verify_chain
verify_chain(c) == VerifyFrom(c, 2)

RECURSIVE TxHasEncHash(_, _, _)
TxHasEncHash(txs, k, enc_hash) ==
    IF k > Len(txs) THEN FALSE
    ELSE IF DictGet(txs[k].file_info, "enc_hash") = enc_hash THEN TRUE
    ELSE TxHasEncHash(txs, k + 1, enc_hash)

RECURSIVE ContainsFrom_BlocksOnly(_, _, _)
\* a bug to be detected: the transactions are not searched
ContainsFrom_BlocksOnly(c, i, enc_hash) ==
    IF i > Len(c) THEN FALSE
    ELSE IF IsDict(c[i].data) /\ DictGet(c[i].data.val, "enc_hash") = enc_hash THEN TRUE
    ELSE ContainsFrom_BlocksOnly(c, i + 1, enc_hash)

RECURSIVE ContainsFrom(_, _, _)
ContainsFrom(c, i, enc_hash) ==
    IF i > Len(c) THEN FALSE
    ELSE IF IsDict(c[i].data) /\ DictGet(c[i].data.val, "enc_hash") = enc_hash THEN TRUE
    ELSE IF TxHasEncHash(c[i].transactions, 1, enc_hash) THEN TRUE
    ELSE ContainsFrom(c, i + 1, enc_hash)

\* Blockchain.contains_enc_hash
contains_enc_hash(c, enc_hash) == ContainsFrom(c, 1, enc_hash)

BlockEntry(block) ==
    [block_index |-> block.index,
     timestamp |-> block.timestamp,
     action |-> "file_encrypted",
     details |-> block.data]

TxEntry(block, tx) ==
    [block_index |-> block.index,
     timestamp |-> block.timestamp,
     action |-> "file_transferred",
     sender |-> tx.sender,
     recipient |-> tx.recipient,
     details |-> tx.file_info]

RECURSIVE TxHistory(_, _, _)
TxHistory(block, k, filename) ==
    IF k > Len(block.transactions) THEN <<>>
    ELSE (IF DictGet(block.transactions[k].file_info, "filename") = filename
          THEN <<TxEntry(block, block.transactions[k])>> ELSE <<>>)
         \o TxHistory(block, k + 1, filename)

RECURSIVE HistoryFrom_TxFirst(_, _, _)
\* a bug to be detected: a block's transactions are listed before the block
HistoryFrom_TxFirst(c, i, filename) ==
    IF i > Len(c) THEN <<>>
    ELSE TxHistory(c[i], 1, filename)
         \o (IF IsDict(c[i].data) /\ DictGet(c[i].data.val, "filename") = filename
             THEN <<BlockEntry(c[i])>> ELSE <<>>)
         \o HistoryFrom_TxFirst(c, i + 1, filename)

RECURSIVE HistoryFrom(_, _, _)
HistoryFrom(c, i, filename) ==
    IF i > Len(c) THEN <<>>
    ELSE (IF IsDict(c[i].data) /\ DictGet(c[i].data.val, "filename") = filename
          THEN <<BlockEntry(c[i])>> ELSE <<>>)
         \o TxHistory(c[i], 1, filename)
         \o HistoryFrom(c, i + 1, filename)

\* Blockchain.get_file_history
get_file_history(c, filename) == HistoryFrom(c, 1, filename)

(***************************************************************************)
(* The inputs the callers pass.                                             *)
(***************************************************************************)
FileA == <<"a">>
FileB == <<"b">>
Filenames == {FileA, FileB}

DigestBlock == <<"d", "1">>     \* recorded as a block's data.enc_hash
DigestTx == <<"d", "2">>        \* recorded as a transaction's file_info.enc_hash
DigestNone == <<"d", "3">>      \* never recorded
Digests == {DigestBlock, DigestTx, DigestNone}

DataChoices ==
    {DictData([filename |-> FileA, enc_hash |-> DigestBlock]),
     DictData([filename |-> FileB])}

FileInfoChoices ==
    {[filename |-> FileA, enc_hash |-> DigestTx],
     [filename |-> FileB]}

Sender == <<"s">>
Recipient == <<"r">>

\* previous_hash is the caller's argument: the tip's hash, as route_encrypt
\* passes, or any other string
PrevChoices(c) == {last(c).hash, <<"0">>}

(***************************************************************************)
(* The state after chain = Blockchain()                                     *)
(***************************************************************************)
IdleFrame ==
    [block |-> NewBlock(<<>>, <<>>, 0, GenesisData, <<"0">>),
     nonce |-> 0,
     txEvts |-> <<>>,
     linked |-> FALSE,
     pendingAtCall |-> <<>>]

NoReturn == [op |-> "none"]

GenesisBlock ==
    LET block == NewBlock(<<>>, <<>>, 0, GenesisData, <<"0">>)
    IN  SealBlock(block, proof_of_work(block))

LedgerInit ==
    /\ chain = <<GenesisBlock>>
    /\ pending_transactions = <<>>
    /\ now = 0
    /\ pc = [t \in Threads |-> "idle"]
    /\ frame = [t \in Threads |-> IdleFrame]
    /\ ret = [t \in Threads |-> NoReturn]
    /\ evt = 0
    /\ pendingEvt = <<>>
    /\ chainEvt = <<[blk |-> 0, txs |-> <<>>, linked |-> FALSE]>>

Untampered == [idx |-> 0, field |-> "none", rehash |-> FALSE, wasValid |-> TRUE]

\* no file stored, no request served yet
NoRequest ==
    [handler |-> "none", pc |-> "done", filename |-> <<>>, password |-> 0, key |-> <<>>,
     enc_hash |-> <<>>, recorded |-> FALSE, calls |-> <<>>, status |-> 0, before |-> <<>>,
     job_id |-> <<>>]

AppIdle ==
    /\ store = <<>>
    /\ web = NoRequest
    /\ kept = {}
    /\ email_status_db = <<>>
    /\ jobs = <<>>
    /\ outbox = <<>>
    /\ issued = 0
    /\ cancelLog = {}

(***************************************************************************)
(* encrypt_file and decrypt_file over the file system.                      *)
(***************************************************************************)
MaxLen == 2         \* bytes of plaintext

Paths == {"plain", "enc", "dec"}

NoFile == <<-1>>

PlainBytes == {0, 255}

RECURSIVE ByteStrings(_)
\* the byte strings of length n over PlainBytes
ByteStrings(n) ==
    IF n = 0 THEN {<<>>}
    ELSE {Append(m, b) : m \in ByteStrings(n - 1), b \in PlainBytes}

Plaintexts == UNION {ByteStrings(n) : n \in 0..MaxLen}

KeyOf(b) == [i \in 1..KEY_SIZE |-> b]
Keys == {KeyOf(1), KeyOf(2)}

\* the nonces get_random_bytes(NONCE_SIZE) may return
Nonces == {[i \in 1..NONCE_SIZE |-> 0], [i \in 1..NONCE_SIZE |-> i]}

NoCall == [op |-> "none"]
NotSealed == [key |-> <<>>, plain |-> <<>>]

CipherIdle ==
    /\ fs = [p \in Paths |-> NoFile]
    /\ cres = NoCall
    /\ sealed = NotSealed
    /\ blobEdit = "none"

\* the files before the first call: a plaintext, and maybe an older output
CipherFiles ==
    /\ fs \in {[plain |-> m, enc |-> NoFile, dec |-> d] :
                 m \in Plaintexts, d \in {NoFile, <<7>>}}
    /\ cres = NoCall
    /\ sealed = NotSealed
    /\ blobEdit = "none"

\* a bug to be detected: the tag is written before the nonce
EncryptFile_TagFirst(input_path, output_path, key, nonce) ==
    /\ cres.op = "none"
    /\ fs[input_path] # NoFile
    /\ LET plaintext == fs[input_path]
           ciphertext == GcmCrypt(key, nonce, plaintext)
           tag == GcmTag(key, nonce, ciphertext)
       IN  /\ fs' = [fs EXCEPT ![output_path] = tag \o nonce \o ciphertext]
           /\ sealed' = [key |-> key, plain |-> plaintext]
    /\ cres' = [op |-> "encrypt_file", status |-> "ok"]
    /\ UNCHANGED blobEdit
    /\ UNCHANGED <<ledgerVars, tampered, appVars, schedVars>>

\* encrypt_file, with the nonce get_random_bytes returned
EncryptFile(input_path, output_path, key, nonce) ==
    /\ cres.op = "none"
    /\ fs[input_path] # NoFile
    /\ LET plaintext == fs[input_path]
           ciphertext == GcmCrypt(key, nonce, plaintext)
           tag == GcmTag(key, nonce, ciphertext)
       IN  /\ fs' = [fs EXCEPT ![output_path] = nonce \o tag \o ciphertext]
           /\ sealed' = [key |-> key, plain |-> plaintext]
    /\ cres' = [op |-> "encrypt_file", status |-> "ok"]
    /\ UNCHANGED blobEdit
    /\ UNCHANGED <<ledgerVars, tampered, appVars, schedVars>>

\* a bug to be detected: the plaintext is written before the tag is verified
DecryptFile_WriteFirst(input_path, output_path, key) ==
    /\ cres.op \in {"none", "encrypt_file"}
    /\ IF fs[input_path] = NoFile
       THEN /\ cres' = [op |-> "decrypt_file", status |-> "FileNotFoundError",
                        key |-> key, before |-> fs[output_path]]
            /\ fs' = fs
       ELSE LET blob == fs[input_path]
                nonce == Slice(blob, 0, NONCE_SIZE)
                tag == Slice(blob, NONCE_SIZE, NONCE_SIZE + TAG_SIZE)
                ciphertext == Slice(blob, NONCE_SIZE + TAG_SIZE, Len(blob))
            IN  IF nonce = <<>>
                THEN /\ cres' = [op |-> "decrypt_file", status |-> "ValueError",
                                 key |-> key, before |-> fs[output_path]]
                     /\ fs' = fs
                ELSE /\ cres' = [op |-> "decrypt_file",
                                 status |-> IF tag # GcmTag(key, nonce, ciphertext)
                                            THEN "ValueError" ELSE "ok",
                                 key |-> key, before |-> fs[output_path]]
                     /\ fs' = [fs EXCEPT ![output_path] = GcmCrypt(key, nonce, ciphertext)]
    /\ UNCHANGED <<sealed, blobEdit>>
    /\ UNCHANGED <<ledgerVars, tampered, appVars, schedVars>>

\* decrypt_file: ValueError when AES.new refuses an empty nonce or
\* decrypt_and_verify finds another tag; the output is written after that
DecryptFile(input_path, output_path, key) ==
    /\ cres.op \in {"none", "encrypt_file"}
    /\ IF fs[input_path] = NoFile
       THEN /\ cres' = [op |-> "decrypt_file", status |-> "FileNotFoundError",
                        key |-> key, before |-> fs[output_path]]
            /\ fs' = fs
       ELSE LET blob == fs[input_path]
                nonce == Slice(blob, 0, NONCE_SIZE)
                tag == Slice(blob, NONCE_SIZE, NONCE_SIZE + TAG_SIZE)
                ciphertext == Slice(blob, NONCE_SIZE + TAG_SIZE, Len(blob))
            IN  IF nonce = <<>> \/ tag # GcmTag(key, nonce, ciphertext)
                THEN /\ cres' = [op |-> "decrypt_file", status |-> "ValueError",
                                 key |-> key, before |-> fs[output_path]]
                     /\ fs' = fs
                ELSE /\ cres' = [op |-> "decrypt_file", status |-> "ok",
                                 key |-> key, before |-> fs[output_path]]
                     /\ fs' = [fs EXCEPT ![output_path] = GcmCrypt(key, nonce, ciphertext)]
    /\ UNCHANGED <<sealed, blobEdit>>
    /\ UNCHANGED <<ledgerVars, tampered, appVars, schedVars>>

\* which part of the framed blob the byte at position pos (from 1) belongs to
PartOf(pos) ==
    IF pos <= NONCE_SIZE THEN "nonce"
    ELSE IF pos <= NONCE_SIZE + TAG_SIZE THEN "tag"
    ELSE "ciphertext"

RECURSIVE Pow2(_)
Pow2(n) == IF n = 0 THEN 1 ELSE 2 * Pow2(n - 1)

\* one bit of the encrypted file is flipped
FlipBit(path, pos, bit) ==
    /\ cres.op = "encrypt_file"
    /\ blobEdit = "none"
    /\ pos \in 1..Len(fs[path])
    /\ fs' = [fs EXCEPT ![path][pos] = BitXor(@, Pow2(bit))]
    /\ blobEdit' = PartOf(pos)
    /\ UNCHANGED <<cres, sealed>>
    /\ UNCHANGED <<ledgerVars, tampered, appVars, schedVars>>

\* the encrypted file loses its tail
Truncate(path, n) ==
    /\ cres.op = "encrypt_file"
    /\ blobEdit = "none"
    /\ n < Len(fs[path])
    /\ fs' = [fs EXCEPT ![path] = SubSeq(@, 1, n)]
    /\ blobEdit' = "truncated"
    /\ UNCHANGED <<cres, sealed>>
    /\ UNCHANGED <<ledgerVars, tampered, appVars, schedVars>>

CipherNext ==
    \/ \E key \in Keys : \E nonce \in Nonces : EncryptFile("plain", "enc", key, nonce)
    \/ \E key \in Keys : DecryptFile("enc", "dec", key)
    \/ \E pos \in 1..(NONCE_SIZE + TAG_SIZE + MaxLen) : \E bit \in 0..7 :
          FlipBit("enc", pos, bit)
    \/ \E n \in 0..(NONCE_SIZE + TAG_SIZE + MaxLen) : Truncate("enc", n)

InitCipher == LedgerInit /\ tampered = Untampered /\ CipherFiles /\ AppIdle

SpecCipher == InitCipher /\ [][CipherNext]_vars

(***************************************************************************)
(* The calls.  A thread is at "idle" between calls; create_block passes     *)
(* through "pow" (the proof-of-work loop), "reset" (nonce found, hash and   *)
(* buffer reset to come) and "append".                                      *)
(***************************************************************************)
AllIdle == \A u \in Threads : pc[u] = "idle"

InFlight == Cardinality({u \in Threads : pc[u] # "idle"})

\* the seconds the wall clock shows during a run
Seconds == {0, 1}

\* create_block: the candidate is built and proof_of_work entered
CreateBlockCall(t, data, previous_hash) ==
    /\ pc[t] = "idle"
    /\ evt + InFlight < MaxCalls
    /\ pc' = [pc EXCEPT ![t] = "pow"]
    /\ frame' = [frame EXCEPT ![t] =
                    [block |-> NewBlock(chain, pending_transactions, now, data, previous_hash),
                     nonce |-> 0,
                     txEvts |-> pendingEvt,
                     linked |-> (previous_hash = last(chain).hash),
                     pendingAtCall |-> pending_transactions]]
    /\ ret' = [ret EXCEPT ![t] = NoReturn]
    /\ UNCHANGED <<chain, pending_transactions, now, evt, pendingEvt, chainEvt>>
    /\ UNCHANGED nonLedgerVars

\* one turn of the loop of proof_of_work
PowStep(t) ==
    /\ pc[t] = "pow"
    /\ IF PowFound(frame[t].block, frame[t].nonce)
       THEN /\ pc' = [pc EXCEPT ![t] = "reset"]
            /\ frame' = frame
       ELSE /\ pc' = pc
            /\ frame' = [frame EXCEPT ![t].nonce = @ + 1]
    /\ UNCHANGED <<chain, pending_transactions, now, ret, evt, pendingEvt, chainEvt>>
    /\ UNCHANGED nonLedgerVars

\* a bug to be detected: the buffer is not reset
ResetPending_Keep(t) ==
    /\ pc[t] = "reset"
    /\ frame' = [frame EXCEPT ![t].block = SealBlock(@, frame[t].nonce)]
    /\ pc' = [pc EXCEPT ![t] = "append"]
    /\ UNCHANGED <<chain, pending_transactions, pendingEvt, now, ret, evt, chainEvt>>
    /\ UNCHANGED nonLedgerVars

\* create_block: nonce and hash are stored, the buffer is reset
ResetPending(t) ==
    /\ pc[t] = "reset"
    /\ frame' = [frame EXCEPT ![t].block = SealBlock(@, frame[t].nonce)]
    /\ pending_transactions' = <<>>
    /\ pendingEvt' = <<>>
    /\ pc' = [pc EXCEPT ![t] = "append"]
    /\ UNCHANGED <<chain, now, ret, evt, chainEvt>>
    /\ UNCHANGED nonLedgerVars

\* a bug to be detected: the block is inserted at the head of the chain
AppendBlock_AtHead(t) ==
    /\ pc[t] = "append"
    /\ chain' = <<frame[t].block>> \o chain
    /\ evt' = evt + 1
    /\ chainEvt' = <<[blk |-> evt + 1, txs |-> frame[t].txEvts,
                      linked |-> frame[t].linked]>> \o chainEvt
    /\ ret' = [ret EXCEPT ![t] = [op |-> "create_block", val |-> frame[t].block]]
    /\ pc' = [pc EXCEPT ![t] = "idle"]
    /\ UNCHANGED <<pending_transactions, now, frame, pendingEvt>>
    /\ UNCHANGED nonLedgerVars

\* create_block: the block is appended and returned
AppendBlock(t) ==
    /\ pc[t] = "append"
    /\ chain' = Append(chain, frame[t].block)
    /\ evt' = evt + 1
    /\ chainEvt' = Append(chainEvt, [blk |-> evt + 1, txs |-> frame[t].txEvts,
                                     linked |-> frame[t].linked])
    /\ ret' = [ret EXCEPT ![t] = [op |-> "create_block", val |-> frame[t].block]]
    /\ pc' = [pc EXCEPT ![t] = "idle"]
    /\ UNCHANGED <<pending_transactions, now, frame, pendingEvt>>
    /\ UNCHANGED nonLedgerVars

\* a bug to be detected: the index of the tip is returned
AddTransaction_ReturnsTip(t, sender, recipient, file_info) ==
    /\ pc[t] = "idle"
    /\ evt + InFlight < MaxCalls
    /\ pending_transactions' =
         Append(pending_transactions, NewTransaction(sender, recipient, file_info, now))
    /\ evt' = evt + 1
    /\ pendingEvt' = Append(pendingEvt, evt + 1)
    /\ ret' = [ret EXCEPT ![t] = [op |-> "add_transaction", val |-> last(chain).index]]
    /\ UNCHANGED <<chain, now, pc, frame, chainEvt>>
    /\ UNCHANGED nonLedgerVars

\* add_transaction
AddTransaction(t, sender, recipient, file_info) ==
    /\ pc[t] = "idle"
    /\ evt + InFlight < MaxCalls
    /\ pending_transactions' =
         Append(pending_transactions, NewTransaction(sender, recipient, file_info, now))
    /\ evt' = evt + 1
    /\ pendingEvt' = Append(pendingEvt, evt + 1)
    /\ ret' = [ret EXCEPT ![t] = [op |-> "add_transaction", val |-> last(chain).index + 1]]
    /\ UNCHANGED <<chain, now, pc, frame, chainEvt>>
    /\ UNCHANGED nonLedgerVars

\* verify_chain
\* a bug to be detected: an invalid chain is cut back to the genesis block
VerifyChainCall_Truncates(t) ==
    /\ pc[t] = "idle"
    /\ ret' = [ret EXCEPT ![t] = [op |-> "verify_chain", val |-> verify_chain(chain)]]
    /\ chain' = IF verify_chain(chain) THEN chain ELSE <<chain[1]>>
    /\ chainEvt' = IF verify_chain(chain) THEN chainEvt ELSE <<chainEvt[1]>>
    /\ UNCHANGED <<pending_transactions, now, pc, frame, evt, pendingEvt>>
    /\ UNCHANGED nonLedgerVars

VerifyChainCall(t) ==
    /\ pc[t] = "idle"
    /\ ret' = [ret EXCEPT ![t] = [op |-> "verify_chain", val |-> verify_chain(chain)]]
    /\ UNCHANGED <<chain, pending_transactions, now, pc, frame, evt, pendingEvt, chainEvt>>
    /\ UNCHANGED nonLedgerVars

\* contains_enc_hash
ContainsEncHashCall(t, enc_hash) ==
    /\ pc[t] = "idle"
    /\ ret' = [ret EXCEPT ![t] =
                  [op |-> "contains_enc_hash", arg |-> enc_hash,
                   val |-> contains_enc_hash(chain, enc_hash)]]
    /\ UNCHANGED <<chain, pending_transactions, now, pc, frame, evt, pendingEvt, chainEvt>>
    /\ UNCHANGED nonLedgerVars

\* get_file_history
GetFileHistoryCall(t, filename) ==
    /\ pc[t] = "idle"
    /\ ret' = [ret EXCEPT ![t] =
                  [op |-> "get_file_history", arg |-> filename,
                   val |-> get_file_history(chain, filename)]]
    /\ UNCHANGED <<chain, pending_transactions, now, pc, frame, evt, pendingEvt, chainEvt>>
    /\ UNCHANGED nonLedgerVars

\* the wall clock advances
Tick ==
    /\ now + 1 \in Seconds
    /\ now' = now + 1
    /\ UNCHANGED <<chain, pending_transactions, pc, frame, ret, evt, pendingEvt, chainEvt>>
    /\ UNCHANGED nonLedgerVars

(***************************************************************************)
(* Sequential use of the ledger: one caller, one call at a time.            *)
(***************************************************************************)
Init == LedgerInit /\ tampered = Untampered /\ CipherIdle /\ AppIdle

Next ==
    \/ \E data \in DataChoices : \E previous_hash \in PrevChoices(chain) :
          AllIdle /\ CreateBlockCall(MainThread, data, previous_hash)
    \/ PowStep(MainThread)
    \/ ResetPending(MainThread)
    \/ AppendBlock(MainThread)
    \/ \E file_info \in FileInfoChoices :
          AllIdle /\ AddTransaction(MainThread, Sender, Recipient, file_info)
    \/ AllIdle /\ VerifyChainCall(MainThread)
    \/ \E enc_hash \in Digests : AllIdle /\ ContainsEncHashCall(MainThread, enc_hash)
    \/ \E filename \in Filenames : AllIdle /\ GetFileHistoryCall(MainThread, filename)
    \/ AllIdle /\ Tick

Spec == Init /\ [][Next]_vars

\* the calls that change the ledger, step by step, without the reading calls
MiningNext ==
    \/ \E data \in DataChoices : \E previous_hash \in PrevChoices(chain) :
          AllIdle /\ CreateBlockCall(MainThread, data, previous_hash)
    \/ PowStep(MainThread)
    \/ ResetPending(MainThread)
    \/ AppendBlock(MainThread)
    \/ \E file_info \in FileInfoChoices :
          AllIdle /\ AddTransaction(MainThread, Sender, Recipient, file_info)
    \/ AllIdle /\ Tick

SpecMining == Init /\ [][MiningNext]_vars

(***************************************************************************)
(* Requests served by two threads on the one ledger of the process, with no *)
(* lock: the calls of the threads interleave between the statements of      *)
(* create_block.  Every create_block call is passed the hash of the tip, as *)
(* route_encrypt passes it.                                                 *)
(***************************************************************************)
ConcurrentNext ==
    \/ \E t \in Threads : \E data \in DataChoices :
          CreateBlockCall(t, data, last(chain).hash)
    \/ \E t \in Threads : PowStep(t)
    \/ \E t \in Threads : ResetPending(t)
    \/ \E t \in Threads : AppendBlock(t)
    \/ \E t \in Threads : \E file_info \in FileInfoChoices :
          AddTransaction(t, Sender, Recipient, file_info)
    \/ AllIdle /\ VerifyChainCall(MainThread)

SpecConcurrent == Init /\ [][ConcurrentNext]_vars

\* the directories of app.py
UPLOADS == <<"uploads/">>
ENCRYPTED == <<"encrypted/">>
DECRYPTED == <<"decrypted/">>

(***************************************************************************)
(* scheduler.py: schedule_email, the jobs of the BackgroundScheduler,       *)
(* send_email and cancel_scheduled_email.                                   *)
(***************************************************************************)
MaxJobs == 2        \* schedule_email calls
MaxMail == 2        \* accepted messages after which no cancellation is requested

\* str(uuid.uuid4()), the k-th value drawn
Uuid4Str(k) == <<"uuid4-str", k>>

\* uuid4().hex, the id the scheduler gives a job added without an id
Uuid4Hex(k) == <<"uuid4-hex", k>>

\* a job id no call has returned
UnknownId == Uuid4Str(0)

ToEmail == <<"r">>

\* dict.get(key) on a status record
Field(record, key) == IF key \in DOMAIN record THEN record[key] ELSE NoneVal

\* record.update(changes)
Update(record, changes) == changes @@ record

\* email_status_db after send_email: the record of job_id marked sent or
\* failed, created if missing; untouched when job_id is None
SentStatus(db, to_email, job_id, ok) ==
    IF job_id = NoneVal THEN db
    ELSE LET changes == IF ok THEN [status |-> "sent", delivery_confirmed |-> FALSE]
                             ELSE [status |-> "failed", error |-> "smtp"]
         IN  IF job_id \in DOMAIN db
             THEN (job_id :> Update(db[job_id], changes)) @@ db
             ELSE (job_id :> Update([to_email |-> to_email], changes)) @@ db

\* the messages accepted by the mail server after send_email; late: the
\* cancellation of job_id had returned "cancelled" before
Sent(box, to_email, attachments, job_id, ok) ==
    IF ok THEN Append(box, [to_email |-> to_email, attachments |-> attachments,
                            job_id |-> job_id, late |-> job_id \in cancelLog])
    ELSE box

\* schedule_email: a status record under a fresh job id, a job added to the
\* scheduler without an id
ScheduleEffect(to_email, attachment_path) ==
    LET job_id == Uuid4Str(issued + 1)
    IN  /\ email_status_db' =
              (job_id :> [to_email |-> to_email, status |-> "scheduled",
                          attachment_path |-> attachment_path]) @@ email_status_db
        /\ jobs' = (Uuid4Hex(issued + 2) :>
                      [to_email |-> to_email, attachments |-> <<attachment_path>>,
                       job_id |-> job_id]) @@ jobs
        /\ issued' = issued + 2
        /\ UNCHANGED <<outbox, cancelLog>>

\* schedule_email called directly
ScheduleEmail(to_email, attachment_path) ==
    /\ issued < 2 * MaxJobs
    /\ ScheduleEffect(to_email, attachment_path)
    /\ ret' = [ret EXCEPT ![MainThread] =
                  [op |-> "schedule_email", val |-> Uuid4Str(issued + 1)]]
    /\ UNCHANGED <<chain, pending_transactions, now, pc, frame, evt, pendingEvt, chainEvt>>
    /\ UNCHANGED <<tampered, cipherVars, appVars>>

\* how a run of send_email ends: the mail server accepts the message
\* or an exception is raised inside the try block (no credentials, no
\* connection, message refused), or reading an
\* attachment raises before the try block
Outcomes == {"accepted", "refused", "unreadable"}

\* the run date of a job arrives: the scheduler runs send_email and drops the job
JobFires(id, outcome) ==
    /\ id \in DOMAIN jobs
    /\ LET job == jobs[id]
           ok == outcome = "accepted"
       IN  IF outcome = "unreadable"
           THEN UNCHANGED <<email_status_db, outbox>>
           ELSE /\ email_status_db' =
                     SentStatus(email_status_db, job.to_email, job.job_id, ok)
                /\ outbox' = Sent(outbox, job.to_email, job.attachments, job.job_id, ok)
    /\ jobs' = [j \in DOMAIN jobs \ {id} |-> jobs[j]]
    /\ UNCHANGED <<issued, cancelLog>>
    /\ UNCHANGED <<ledgerVars, tampered, cipherVars, appVars>>

\* a bug to be detected: a sent email is cancelled like any other
CancelScheduledEmail_NoSentCheck(job_id, ok) ==
    LET job == job_id \in DOMAIN jobs
        known == job_id \in DOMAIN email_status_db
        record == IF known THEN email_status_db[job_id] ELSE <<>>
        to_email == Field(record, "to_email")
        cancelled == Update(record, [status |-> "cancelled"])
        notified == IF to_email = NoneVal THEN cancelled
                    ELSE Update(cancelled, [notification_sent |-> ok])
    IN  /\ jobs' = [j \in DOMAIN jobs \ (IF job THEN {job_id} ELSE {}) |-> jobs[j]]
        /\ email_status_db' = (job_id :> notified) @@ email_status_db
        /\ outbox' = IF to_email = NoneVal THEN outbox
                     ELSE Sent(outbox, to_email, <<>>, NoneVal, ok)
        /\ cancelLog' = cancelLog \cup {job_id}
        /\ ret' = [ret EXCEPT ![MainThread] =
                     [op |-> "cancel_scheduled_email", arg |-> job_id,
                      val |-> "cancelled"]]
        /\ UNCHANGED issued

\* cancel_scheduled_email(job_id); ok: whether the mail server accepts the notice
CancelScheduledEmail(job_id, ok) ==
    LET job == job_id \in DOMAIN jobs
        known == job_id \in DOMAIN email_status_db
        record == IF known THEN email_status_db[job_id] ELSE <<>>
    IN  IF known /\ Field(record, "status") = "sent"
        THEN /\ ret' = [ret EXCEPT ![MainThread] =
                          [op |-> "cancel_scheduled_email", arg |-> job_id,
                           val |-> "already_sent"]]
             /\ UNCHANGED schedVars
        ELSE LET to_email == Field(record, "to_email")
                 cancelled == Update(record, [status |-> "cancelled"])
                 notified == IF to_email = NoneVal THEN cancelled
                             ELSE Update(cancelled, [notification_sent |-> ok])
             IN  /\ jobs' = [j \in DOMAIN jobs \ (IF job THEN {job_id} ELSE {}) |-> jobs[j]]
                 /\ email_status_db' = (job_id :> notified) @@ email_status_db
                 /\ outbox' = IF to_email = NoneVal THEN outbox
                              ELSE Sent(outbox, to_email, <<>>, NoneVal, ok)
                 /\ cancelLog' = cancelLog \cup {job_id}
                 /\ ret' = [ret EXCEPT ![MainThread] =
                              [op |-> "cancel_scheduled_email", arg |-> job_id,
                               val |-> "cancelled"]]
                 /\ UNCHANGED issued

\* cancel_scheduled_email called by the application
CancelCall(job_id, ok) ==
    /\ Len(outbox) < MaxMail
    /\ CancelScheduledEmail(job_id, ok)
    /\ UNCHANGED <<chain, pending_transactions, now, pc, frame, evt, pendingEvt, chainEvt>>
    /\ UNCHANGED <<tampered, cipherVars, appVars>>

\* the job ids a caller may pass
CancelIds == DOMAIN email_status_db \cup DOMAIN jobs \cup {UnknownId}

SchedulerNext ==
    \/ ScheduleEmail(ToEmail, ENCRYPTED \o <<"enc_">> \o FileA)
    \/ \E id \in DOMAIN jobs : \E outcome \in Outcomes : JobFires(id, outcome)
    \/ \E job_id \in CancelIds : \E ok \in BOOLEAN : CancelCall(job_id, ok)

SpecScheduler == Init /\ [][SchedulerNext]_vars

(***************************************************************************)
(* 3DES-main/scheduler.py: the same schedule_email, send_email through      *)
(* SendGrid, get_email_status; no cancel_scheduled_email.                   *)
(***************************************************************************)
\* email_status_db after send_email of 3DES-main/scheduler.py called the API:
\* the record of job_id marked sent or failed; a record is stored under
\* job_id, None included, when there is none
SendGridStatus(db, to_email, job_id, ok) ==
    LET changes == IF ok THEN [status |-> "sent", response_code |-> 202]
                         ELSE [status |-> "failed", error |-> "sendgrid"]
    IN  IF job_id # NoneVal /\ job_id \in DOMAIN db
        THEN (job_id :> Update(db[job_id], changes)) @@ db
        ELSE (job_id :> Update([to_email |-> to_email], changes)) @@ db

\* how a run of that send_email ends: as above, or SENDGRID_API_KEY is not set
SendGridOutcomes == Outcomes \cup {"no_key"}

\* the run date of a job arrives under 3DES-main/scheduler.py
JobFiresSendGrid(id, outcome) ==
    /\ id \in DOMAIN jobs
    /\ LET job == jobs[id]
           ok == outcome = "accepted"
       IN  IF outcome \in {"no_key", "unreadable"}
           THEN UNCHANGED <<email_status_db, outbox>>
           ELSE /\ email_status_db' =
                     SendGridStatus(email_status_db, job.to_email, job.job_id, ok)
                /\ outbox' = Sent(outbox, job.to_email, job.attachments, job.job_id, ok)
    /\ jobs' = [j \in DOMAIN jobs \ {id} |-> jobs[j]]
    /\ UNCHANGED <<issued, cancelLog>>
    /\ UNCHANGED <<ledgerVars, tampered, cipherVars, appVars>>

\* get_email_status(job_id): the record, else "scheduled" for a job the
\* scheduler knows under that id, else "unknown"
GetEmailStatus(job_id) ==
    /\ ret' = [ret EXCEPT ![MainThread] =
                  [op |-> "get_email_status", arg |-> job_id,
                   val |-> IF job_id \in DOMAIN email_status_db
                           THEN email_status_db[job_id].status
                           ELSE IF job_id \in DOMAIN jobs THEN "scheduled"
                           ELSE "unknown"]]
    /\ UNCHANGED <<chain, pending_transactions, now, pc, frame, evt, pendingEvt, chainEvt>>
    /\ UNCHANGED <<tampered, cipherVars, appVars, schedVars>>

SendGridNext ==
    \/ ScheduleEmail(ToEmail, ENCRYPTED \o <<"enc_">> \o FileA)
    \/ \E id \in DOMAIN jobs : \E outcome \in SendGridOutcomes : JobFiresSendGrid(id, outcome)
    \/ \E job_id \in CancelIds : GetEmailStatus(job_id)

SpecSendGrid == Init /\ [][SendGridNext]_vars

(***************************************************************************)
(* The route handlers of app.py, one request at a time.  The handlers work  *)
(* on files in the directories uploads/, encrypted/ and decrypted/.         *)
(***************************************************************************)
\* os.path.exists(path)
Exists(path) == path \in DOMAIN store

\* the store after open(path, "wb").write(bytes) or f.save(path)
WriteFile(st, path, bytes) == (path :> bytes) @@ st

\* the hex digits of a byte string
RECURSIVE HexString(_)
HexString(bytes) ==
    IF bytes = <<>> THEN <<>>
    ELSE <<HexChars[(bytes[1] \div 16) + 1], HexChars[(bytes[1] % 16) + 1]>>
         \o HexString(Tail(bytes))

\* hash_file, on the content of the file
hash_file(bytes) == Sha256Hex(HexString(bytes))

\* the passwords a client may send and the salts get_random_bytes may return
Passwords == {1, 2}
Salts == {[i \in 1..SALT_SIZE |-> 1], [i \in 1..SALT_SIZE |-> 2]}

\* PBKDF2 as an ideal key derivation: password and salt decide the key
derive_key_from_password(password, salt) == KeyOf(((password + salt[1]) % 2) + 1)

\* nonce + tag + ciphertext, as encrypt_file writes it
Seal(key, nonce, plaintext) ==
    LET ciphertext == GcmCrypt(key, nonce, plaintext)
    IN  nonce \o GcmTag(key, nonce, ciphertext) \o ciphertext

\* what decrypt_file makes of a blob: the plaintext, or ValueError
Open(key, blob) ==
    LET nonce == Slice(blob, 0, NONCE_SIZE)
        tag == Slice(blob, NONCE_SIZE, NONCE_SIZE + TAG_SIZE)
        ciphertext == Slice(blob, NONCE_SIZE + TAG_SIZE, Len(blob))
    IN  IF nonce = <<>> \/ tag # GcmTag(key, nonce, ciphertext)
        THEN [status |-> "ValueError"]
        ELSE [status |-> "ok", plaintext |-> GcmCrypt(key, nonce, ciphertext)]

\* the names under which a client uploads files
UploadNames == {FileA}
EncName(filename) == <<"enc_">> \o filename
DecName(filename) == <<"dec_">> \o filename
OtherName == <<"x">>

AppReady == web.pc = "done" /\ AllIdle

\* the handler returns its response: its locals are gone
Respond(w, status) ==
    [w EXCEPT !.pc = "done", !.status = status,
              !.password = 0, !.key = <<>>, !.enc_hash = <<>>]

\* route_encrypt up to the salt file: inputs checked, upload saved, key
\* derived, file encrypted, salt stored
EncryptRequest(filename, plaintext, password, salt, nonce, complete) ==
    /\ AppReady
    /\ evt < MaxCalls /\ issued < 2 * MaxJobs /\ Len(chain) <= MaxJobs
    /\ IF ~complete
       THEN /\ web' = [NoRequest EXCEPT !.handler = "encrypt", !.status = 400]
            /\ store' = store
            /\ kept' = kept
       ELSE LET key == derive_key_from_password(password, salt)
                src_path == UPLOADS \o filename
                enc_path == ENCRYPTED \o EncName(filename)
                blob == Seal(key, nonce, plaintext)
            IN  /\ store' = WriteFile(WriteFile(WriteFile(store, src_path, plaintext),
                                                enc_path, blob),
                                      enc_path \o <<".salt">>, salt)
                /\ kept' = kept \cup {[filename |-> EncName(filename), blob |-> blob,
                                        password |-> password, salt |-> salt]}
                /\ web' = [NoRequest EXCEPT
                             !.handler = "encrypt", !.pc = "record",
                             !.filename = filename, !.password = password, !.key = key,
                             !.enc_hash = hash_file(blob),
                             !.calls = <<"derive_key_from_password", "encrypt_file",
                                         "hash_file">>]
    /\ UNCHANGED <<ledgerVars, tampered, cipherVars, schedVars>>

\* route_encrypt: the block is created with the hash of the tip
EncryptRecord ==
    /\ web.handler = "encrypt" /\ web.pc = "record"
    /\ LET data == DictData([filename |-> web.filename, enc_hash |-> web.enc_hash])
           block == NewBlock(chain, pending_transactions, now, data, last(chain).hash)
       IN  chain' = Append(chain, SealBlock(block, proof_of_work(block)))
    /\ pending_transactions' = <<>>
    /\ evt' = evt + 1
    /\ chainEvt' = Append(chainEvt, [blk |-> evt + 1, txs |-> pendingEvt, linked |-> TRUE])
    /\ pendingEvt' = <<>>
    /\ web' = [web EXCEPT !.pc = "schedule", !.calls = Append(@, "create_block")]
    /\ UNCHANGED <<now, pc, frame, ret, store, kept>>
    /\ UNCHANGED <<tampered, cipherVars, schedVars>>

\* route_encrypt: strptime on the date and time sent, then schedule_email and
\* the response; an exception gives 500
EncryptSchedule(dateOk) ==
    /\ web.handler = "encrypt" /\ web.pc = "schedule"
    /\ IF dateOk
       THEN /\ ScheduleEffect(ToEmail, ENCRYPTED \o EncName(web.filename))
            /\ web' = Respond([web EXCEPT !.calls = Append(@, "schedule_email"),
                                          !.job_id = Uuid4Str(issued + 1)], 200)
       ELSE /\ web' = Respond(web, 500)
            /\ UNCHANGED schedVars
    /\ UNCHANGED <<ledgerVars, tampered, cipherVars, store, kept>>

\* route_decrypt up to the salt: inputs checked, upload saved, salt looked up
DecryptRequest(filename, blob, password, complete) ==
    /\ AppReady
    /\ IF ~complete
       THEN /\ web' = [NoRequest EXCEPT !.handler = "decrypt", !.status = 400]
            /\ store' = store
       ELSE LET src_path == UPLOADS \o filename
                salt_path == ENCRYPTED \o filename \o <<".salt">>
                dec_path == DECRYPTED \o DecName(filename)
                    request == [NoRequest EXCEPT
                                  !.handler = "decrypt", !.pc = "check",
                                  !.filename = filename, !.password = password,
                                  !.before = IF Exists(dec_path) THEN store[dec_path]
                                             ELSE NoFile]
            IN  /\ store' = WriteFile(store, src_path, blob)
                /\ web' = IF Exists(salt_path) THEN request ELSE Respond(request, 400)
    /\ UNCHANGED <<ledgerVars, tampered, cipherVars, kept, schedVars>>

\* a bug to be detected: the file is decrypted whatever the lookup said
DecryptCheck_Unchecked ==
    /\ web.handler = "decrypt" /\ web.pc = "check"
    /\ LET salt == store[ENCRYPTED \o web.filename \o <<".salt">>]
           enc_hash == hash_file(store[UPLOADS \o web.filename])
           found == contains_enc_hash(chain, enc_hash)
       IN  web' = [web EXCEPT
                     !.key = derive_key_from_password(web.password, salt),
                     !.enc_hash = enc_hash,
                     !.recorded = found,
                     !.calls = @ \o <<"derive_key_from_password", "hash_file",
                                      "contains_enc_hash">>,
                     !.pc = "decrypt"]
    /\ UNCHANGED <<ledgerVars, tampered, cipherVars, store, kept, schedVars>>

\* route_decrypt: key derived with the stored salt, digest of the upload
\* looked up in the chain
DecryptCheck ==
    /\ web.handler = "decrypt" /\ web.pc = "check"
    /\ LET salt == store[ENCRYPTED \o web.filename \o <<".salt">>]
           enc_hash == hash_file(store[UPLOADS \o web.filename])
           found == contains_enc_hash(chain, enc_hash)
           checked == [web EXCEPT
                         !.key = derive_key_from_password(web.password, salt),
                         !.enc_hash = enc_hash,
                         !.recorded = found,
                         !.calls = @ \o <<"derive_key_from_password", "hash_file",
                                          "contains_enc_hash">>,
                         !.pc = "decrypt"]
       IN  web' = IF found THEN checked ELSE Respond(checked, 400)
    /\ UNCHANGED <<ledgerVars, tampered, cipherVars, store, kept, schedVars>>

\* route_decrypt: decrypt_file, then the response; an exception gives 500
DecryptFinish ==
    /\ web.handler = "decrypt" /\ web.pc = "decrypt"
    /\ LET opened == Open(web.key, store[UPLOADS \o web.filename])
           dec_path == DECRYPTED \o DecName(web.filename)
       IN  /\ store' = IF opened.status = "ok"
                       THEN WriteFile(store, dec_path, opened.plaintext)
                       ELSE store
           /\ web' = Respond([web EXCEPT !.calls = Append(@, "decrypt_file")],
                             IF opened.status = "ok" THEN 200 ELSE 500)
    /\ UNCHANGED <<ledgerVars, tampered, cipherVars, kept, schedVars>>

\* the files a client encrypts, and the nonce get_random_bytes returns
Contents == {<<1>>}
ZeroNonce == [i \in 1..NONCE_SIZE |-> 0]

\* what a client may upload to /decrypt: an encrypted file made by /encrypt,
\* or such a file with one more byte
Received == {k.blob : k \in kept}
Uploads == Received \cup {Append(bytes, 0) : bytes \in Received}

WebNext ==
    \/ \E filename \in UploadNames, plaintext \in Contents, password \in Passwords,
          salt \in Salts :
            EncryptRequest(filename, plaintext, password, salt, ZeroNonce, TRUE)
    \/ \E filename \in UploadNames, plaintext \in Contents :
            EncryptRequest(filename, plaintext, 0, <<>>, ZeroNonce, FALSE)
    \/ EncryptRecord
    \/ \E dateOk \in BOOLEAN : EncryptSchedule(dateOk)
    \/ \E filename \in {EncName(f) : f \in UploadNames}, blob \in Uploads,
          password \in Passwords :
            DecryptRequest(filename, blob, password, TRUE)
    \/ \E password \in Passwords : DecryptRequest(OtherName, <<>>, password, TRUE)
    \/ \E filename \in {EncName(f) : f \in UploadNames} :
            DecryptRequest(filename, <<>>, 0, FALSE)
    \/ DecryptCheck
    \/ DecryptFinish

SpecWeb == Init /\ [][WebNext]_vars

(***************************************************************************)
(* A stored block edited behind the API (chain is a public list of dicts): *)
(* one field of one block gets another value; the editor may also store    *)
(* the recomputed hash of the edited block, without searching for a nonce. *)
(***************************************************************************)
BlockFields == {"index", "timestamp", "data", "previous_hash", "nonce", "hash", "transactions"}

ForgedTx == NewTransaction(Recipient, Sender, [filename |-> FileB], 0)

\* the values an editor may write into a field of block b
FieldValues(c, b, field) ==
    CASE field = "index" -> {b.index + 1}
      [] field = "timestamp" -> {IsoFormat(t) : t \in Seconds}
      [] field = "data" -> DataChoices
      [] field = "previous_hash" -> {<<"0">>, c[1].hash}
      [] field = "nonce" -> {b.nonce + 1}
      [] field = "hash" -> {Zeros(difficulty), <<"f">>}
      [] field = "transactions" -> {<<>>, <<ForgedTx>>}

SetField(b, field, v) ==
    CASE field = "index" -> [b EXCEPT !.index = v]
      [] field = "timestamp" -> [b EXCEPT !.timestamp = v]
      [] field = "data" -> [b EXCEPT !.data = v]
      [] field = "previous_hash" -> [b EXCEPT !.previous_hash = v]
      [] field = "nonce" -> [b EXCEPT !.nonce = v]
      [] field = "hash" -> [b EXCEPT !.hash = v]
      [] field = "transactions" -> [b EXCEPT !.transactions = v]

GetField(b, field) ==
    CASE field = "index" -> b.index
      [] field = "timestamp" -> b.timestamp
      [] field = "data" -> b.data
      [] field = "previous_hash" -> b.previous_hash
      [] field = "nonce" -> b.nonce
      [] field = "hash" -> b.hash
      [] field = "transactions" -> b.transactions

Tamper(i, field, v, rehash) ==
    /\ AllIdle
    /\ tampered = Untampered
    /\ i \in 1..Len(chain)
    /\ v # GetField(chain[i], field)
    /\ rehash => field # "hash"
    /\ LET edited == SetField(chain[i], field, v)
       IN  chain' = [chain EXCEPT ![i] =
                        IF rehash THEN [edited EXCEPT !.hash = hash_block(edited)]
                        ELSE edited]
    /\ tampered' = [idx |-> i, field |-> field, rehash |-> rehash,
                    wasValid |-> verify_chain(chain)]
    /\ UNCHANGED <<pending_transactions, now, pc, frame, ret, evt, pendingEvt, chainEvt>>
    /\ UNCHANGED <<cipherVars, appVars, schedVars>>

\* the calls that come before the edit
TamperCalls == MaxCalls - 1

TamperNext ==
    \/ \E data \in DataChoices : \E previous_hash \in PrevChoices(chain) :
          /\ AllIdle /\ tampered = Untampered /\ evt < TamperCalls
          /\ CreateBlockCall(MainThread, data, previous_hash)
    \/ PowStep(MainThread)
    \/ ResetPending(MainThread)
    \/ AppendBlock(MainThread)
    \/ \E file_info \in FileInfoChoices :
          /\ AllIdle /\ tampered = Untampered /\ evt < TamperCalls
          /\ AddTransaction(MainThread, Sender, Recipient, file_info)
    \/ AllIdle /\ tampered = Untampered /\ Tick
    \/ \E i \in 1..Len(chain) : \E field \in BlockFields :
          \E v \in FieldValues(chain, chain[i], field) : \E rehash \in BOOLEAN :
             Tamper(i, field, v, rehash)
    \/ AllIdle /\ tampered # Untampered /\ VerifyChainCall(MainThread)

SpecTamper == Init /\ [][TamperNext]_vars

(***************************************************************************)
(* Properties of the ledger.                                                *)
(***************************************************************************)
HasZeros(h) == StartsWith(h, Zeros(difficulty))

IsPrefix(a, b) == Len(a) <= Len(b) /\ SubSeq(b, 1, Len(a)) = a

\* C1 as stated: after any sequence of completed create_block and
\* add_transaction calls on a fresh ledger, verify_chain() returns True
C1_BuiltChainVerifies == AllIdle => verify_chain(chain)

\* every create_block call so far was passed the hash of the tip
AllLinked == \A i \in 2..Len(chainEvt) : chainEvt[i].linked

\* what create_block does guarantee (C1 for the callers that pass the tip's hash,
\* as route_encrypt does): after any sequence of completed create_block and
\* add_transaction calls on a fresh ledger in which every create_block call was
\* passed previous_hash = last()["hash"], verify_chain() returns True
LinkedChainVerifies == (AllIdle /\ AllLinked) => verify_chain(chain)

LinkedChainWitness ==
    /\ AllIdle /\ AllLinked
    /\ Len(chain) >= 3
    /\ chain[2].transactions # <<>>
    /\ chain[3].nonce > 0
    /\ ret[MainThread].op = "verify_chain" /\ ret[MainThread].val

\* C2: one field of one non-genesis block given another value, nothing else
\* touched, makes verify_chain() return False
C2_TamperEvident ==
    (tampered.idx > 1 /\ ~tampered.rehash) => ~verify_chain(chain)

C2_Witness ==
    /\ tampered.idx > 1 /\ tampered.idx < Len(chain)
    /\ tampered.field = "data"
    /\ ~tampered.rehash
    /\ tampered.wasValid
    /\ ret[MainThread].op = "verify_chain" /\ ~ret[MainThread].val

\* C3 as stated: on any chain contents, verify_chain() = True implies that every
\* block, the genesis block included, has a hash with difficulty leading zeros
C3_EveryBlockHasZeros ==
    verify_chain(chain) => \A i \in 1..Len(chain) : HasZeros(chain[i].hash)

\* C3 as amended: on any chain contents, verify_chain() = True implies that every
\* block after the genesis block has a hash with difficulty leading zeros
C3_NonGenesisHasZeros ==
    verify_chain(chain) => \A i \in 2..Len(chain) : HasZeros(chain[i].hash)

C3_Witness ==
    /\ tampered.idx > 1 /\ tampered.rehash
    /\ verify_chain(chain)
    /\ ret[MainThread].op = "verify_chain" /\ ret[MainThread].val

\* the digests recorded in the chain
RecordedDigests ==
    {chain[i].data.val.enc_hash :
        i \in {j \in 1..Len(chain) :
                 IsDict(chain[j].data) /\ "enc_hash" \in DOMAIN chain[j].data.val}}
    \cup
    UNION {{chain[i].transactions[k].file_info.enc_hash :
              k \in {m \in 1..Len(chain[i].transactions) :
                       "enc_hash" \in DOMAIN chain[i].transactions[m].file_info}} :
           i \in 1..Len(chain)}

\* C4: contains_enc_hash(h) is True exactly when h is the data.enc_hash of a
\* block of the chain or the file_info.enc_hash of a transaction stored in one
C4_ContainsIffRecorded ==
    \A h \in Digests : contains_enc_hash(chain, h) <=> h \in RecordedDigests

C4_Witness ==
    /\ contains_enc_hash(chain, DigestBlock)
    /\ ~contains_enc_hash(chain, DigestNone)
    /\ ret[MainThread].op = "contains_enc_hash"
    /\ ret[MainThread].arg = DigestTx
    /\ ret[MainThread].val

\* where an entry of the history of a file comes from: <<i, 0>> is block i,
\* <<i, k>> the k-th transaction of block i
HistoryKeys(filename) ==
    {<<i, 0>> : i \in {j \in 1..Len(chain) :
                         IsDict(chain[j].data)
                         /\ DictGet(chain[j].data.val, "filename") = filename}}
    \cup
    UNION {{<<i, k>> : k \in {m \in 1..Len(chain[i].transactions) :
                                DictGet(chain[i].transactions[m].file_info, "filename")
                                   = filename}} :
           i \in 1..Len(chain)}

EntryOf(key) ==
    IF key[2] = 0 THEN BlockEntry(chain[key[1]])
    ELSE TxEntry(chain[key[1]], chain[key[1]].transactions[key[2]])

\* when the block or the transaction was appended (to the chain, to the buffer)
AppendedAt(key) ==
    IF key[2] = 0 THEN chainEvt[key[1]].blk ELSE chainEvt[key[1]].txs[key[2]]

\* position in the chain: block by block, the block before its transactions
StoredBefore(x, y) == x[1] < y[1] \/ (x[1] = y[1] /\ x[2] < y[2])

\* C5 as stated: the history of a file has exactly one entry per block and per
\* stored transaction that names the file, in the order in which these were
\* appended
C5_HistoryChronological ==
    \A f \in Filenames :
        LET H == get_file_history(chain, f)
            keys == HistoryKeys(f)
        IN  /\ Len(H) = Cardinality(keys)
            /\ \A x \in keys :
                 H[1 + Cardinality({y \in keys : AppendedAt(y) < AppendedAt(x)})] = EntryOf(x)

\* C5 as amended: the history of a file has exactly one entry per block and per
\* stored transaction that names the file, in chain order, each block's own
\* entry before the entries of the transactions stored in it
C5_HistoryInChainOrder ==
    \A f \in Filenames :
        LET H == get_file_history(chain, f)
            keys == HistoryKeys(f)
        IN  /\ Len(H) = Cardinality(keys)
            /\ \A x \in keys :
                 H[1 + Cardinality({y \in keys : StoredBefore(y, x)})] = EntryOf(x)

C5_Witness ==
    /\ ret[MainThread].op = "get_file_history"
    /\ ret[MainThread].arg = FileA
    /\ Len(ret[MainThread].val) = 2
    /\ ret[MainThread].val[1].action = "file_encrypted"
    /\ ret[MainThread].val[2].action = "file_transferred"
    /\ ret[MainThread].val[1].block_index = ret[MainThread].val[2].block_index
    /\ \E i \in 1..Len(chain) : Len(chain[i].transactions) = 2

\* C8: every step leaves the old chain a prefix of the new one, and the chain
\* grows only by the block a create_block call appends, one block at a time
C8_AppendOnly ==
    [][/\ IsPrefix(chain, chain')
       /\ chain' # chain =>
            /\ Len(chain') = Len(chain) + 1
            /\ \E t \in Threads :
                 /\ pc[t] = "append" /\ pc'[t] = "idle"
                 /\ ret'[t].op = "create_block"
                 /\ ret'[t].val = last(chain')]_vars

C8_Witness ==
    /\ Len(chain) >= 3
    /\ pending_transactions # <<>>
    /\ ret[MainThread].op = "verify_chain"

\* C9: every block in the chain carries a non-empty hash that is the hash of
\* the block with its stored nonce and has the leading zeros, also while a
\* create_block call is under way; the candidate of that call is not in the chain
C9_OnlyMinedBlocksLinked ==
    /\ \A i \in 1..Len(chain) :
         /\ chain[i].hash # <<>>
         /\ chain[i].hash = hash_block(chain[i])
         /\ HasZeros(chain[i].hash)
    /\ \A t \in Threads :
         pc[t] # "idle" =>
            /\ Len(chain) + 1 = frame[t].block.index
            /\ \A i \in 1..Len(chain) : chain[i] # frame[t].block
            /\ last(chain).index < frame[t].block.index
            /\ \A f \in Filenames :
                 LET H == get_file_history(chain, f)
                 IN  \A j \in 1..Len(H) : H[j].block_index # frame[t].block.index

C9_Witness ==
    /\ pc[MainThread] = "pow"
    /\ frame[MainThread].nonce > 0
    /\ frame[MainThread].block.hash = <<>>
    /\ Len(chain) >= 2

\* C10: the block create_block appends carries the buffer as it was at the
\* call, in order, and the buffer is empty when create_block returns
C10_CapturesAndClears ==
    \A t \in Threads :
        ret[t].op = "create_block" =>
            /\ ret[t].val.transactions = frame[t].pendingAtCall
            /\ last(chain).transactions = frame[t].pendingAtCall
            /\ pending_transactions = <<>>

C10_Witness ==
    /\ ret[MainThread].op = "create_block"
    /\ Len(last(chain).transactions) = 2
    /\ last(chain).transactions[1] # last(chain).transactions[2]

(***************************************************************************)
(* Properties of encrypt_file and decrypt_file.                             *)
(***************************************************************************)
\* C6: decrypt_file with the key of encrypt_file, on the file encrypt_file
\* wrote, writes the plaintext that was encrypted
C6_RoundTrip ==
    (cres.op = "decrypt_file" /\ sealed # NotSealed /\ blobEdit = "none"
        /\ cres.key = sealed.key)
    => (cres.status = "ok" /\ fs["dec"] = sealed.plain)

C6_Witness ==
    /\ cres.op = "decrypt_file" /\ cres.status = "ok"
    /\ blobEdit = "none"
    /\ Len(sealed.plain) = MaxLen
    /\ sealed.plain[1] # sealed.plain[2]
    /\ fs["dec"] = sealed.plain
    /\ fs["enc"] # fs["plain"]
    /\ cres.before # NoFile

\* C7: on a blob shorter than nonce and tag, on a blob of which a bit of the
\* nonce, the tag or the ciphertext was flipped or the tail cut, and with
\* another key than the one of encrypt_file, decrypt_file raises ValueError
\* and leaves the output file as it was
C7_AllOrNothing ==
    (cres.op = "decrypt_file" /\ sealed # NotSealed
        /\ (blobEdit # "none" \/ cres.key # sealed.key
            \/ Len(fs["enc"]) < NONCE_SIZE + TAG_SIZE))
    => (cres.status = "ValueError" /\ fs["dec"] = cres.before)

C7_Witness ==
    /\ cres.op = "decrypt_file" /\ cres.status = "ValueError"
    /\ blobEdit = "ciphertext"
    /\ cres.key = sealed.key
    /\ cres.before # NoFile
    /\ fs["dec"] = cres.before

(***************************************************************************)
(* Further properties of the ledger under sequential use.                   *)
(***************************************************************************)
\* the step of thread t is a completed add_transaction call
IsAddTransaction(t) == evt' # evt /\ ret'[t].op = "add_transaction"

\* C11: an add_transaction call appends one transaction at the end of the
\* buffer, leaves the chain as it is and returns the length of the chain plus
\* one, which is the index create_block gives the next block
C11_AddTransactionFrame ==
    [][\A t \in Threads :
         IsAddTransaction(t) =>
            /\ Len(pending_transactions') = Len(pending_transactions) + 1
            /\ IsPrefix(pending_transactions, pending_transactions')
            /\ chain' = chain
            /\ ret'[t].val = Len(chain) + 1
            /\ \A data \in DataChoices : \A previous_hash \in PrevChoices(chain') :
                 NewBlock(chain', pending_transactions', now', data, previous_hash).index
                    = ret'[t].val]_vars

C11_Witness ==
    /\ ret[MainThread].op = "add_transaction"
    /\ ret[MainThread].val = 3
    /\ Len(pending_transactions) = 2
    /\ Len(chain) = 2

(***************************************************************************)
(* Properties of the ledger under concurrent use.                           *)
(***************************************************************************)
\* two blocks of the chain carry the same index
DuplicateIndex ==
    \E i, j \in 1..Len(chain) : i < j /\ chain[i].index = chain[j].index

\* two blocks after the genesis block carry the same previous_hash
DuplicatePreviousHash ==
    \E i, j \in 2..Len(chain) : i < j /\ chain[i].previous_hash = chain[j].previous_hash

\* the events that are add_transaction calls
AddEvts == (1..evt) \ {chainEvt[i].blk : i \in 1..Len(chainEvt)}

\* the transactions held by the buffer, by a block or by a candidate block
HeldEvts ==
    {pendingEvt[k] : k \in 1..Len(pendingEvt)}
    \cup UNION {{chainEvt[i].txs[k] : k \in 1..Len(chainEvt[i].txs)} : i \in 1..Len(chainEvt)}
    \cup UNION {{frame[t].txEvts[k] : k \in 1..Len(frame[t].txEvts)} :
                  t \in {u \in Threads : pc[u] # "idle"}}

\* the transactions that were accepted and are held nowhere any more
LostEvts == AddEvts \ HeldEvts

\* C12: with interleaved calls the chain can come to hold two blocks with the
\* same index or the same previous_hash, and verify_chain() is False on every
\* such chain; a transaction can come to be held nowhere (the witness reaches
\* a state with all three)
C12_RacedChainFailsVerification ==
    (DuplicateIndex \/ DuplicatePreviousHash) => ~verify_chain(chain)

C12_Witness ==
    /\ AllIdle
    /\ DuplicateIndex /\ DuplicatePreviousHash
    /\ LostEvts # {}
    /\ pending_transactions = <<>>
    /\ ret[MainThread].op = "verify_chain" /\ ~ret[MainThread].val

\* a transaction accepted while another thread mines is dropped by that
\* thread's reset of the buffer
C12_LostTransactionWitness ==
    /\ AllIdle
    /\ LostEvts # {}
    /\ ~DuplicateIndex


\* the position of the first call named op in a call sequence, 0 if none
FirstCall(calls, op) ==
    IF \E k \in 1..Len(calls) : calls[k] = op
    THEN CHOOSE k \in 1..Len(calls) : calls[k] = op /\ \A j \in 1..(k - 1) : calls[j] # op
    ELSE 0

\* the digest of the upload of the current /decrypt request is in the chain
UploadRecorded == contains_enc_hash(chain, hash_file(store[UPLOADS \o web.filename]))

SaltStored == Exists(ENCRYPTED \o web.filename \o <<".salt">>)

DecryptedFile ==
    IF Exists(DECRYPTED \o DecName(web.filename))
    THEN store[DECRYPTED \o DecName(web.filename)]
    ELSE NoFile

\* C13: in /decrypt, decrypt_file is invoked only after contains_enc_hash
\* returned True for the digest of the upload; when the digest is not recorded
\* or the salt file is missing, the response is an error and the decrypted
\* output is not written.
C13_LedgerCheckPrecedesDecryption ==
    (web.handler = "decrypt" /\ web.filename # <<>>) =>
        /\ (web.pc = "decrypt" \/ FirstCall(web.calls, "decrypt_file") > 0) =>
              /\ web.recorded /\ UploadRecorded
              /\ FirstCall(web.calls, "contains_enc_hash") > 0
              /\ FirstCall(web.calls, "decrypt_file") \in
                    {0} \cup ((FirstCall(web.calls, "contains_enc_hash") + 1)..Len(web.calls))
        /\ (web.pc = "done" /\ (~UploadRecorded \/ ~SaltStored)) =>
              /\ web.status = 400
              /\ FirstCall(web.calls, "decrypt_file") = 0
              /\ DecryptedFile = web.before

\* a recorded upload has been decrypted after the lookup
C13_Witness ==
    /\ web.handler = "decrypt" /\ web.pc = "done" /\ web.status = 200
    /\ FirstCall(web.calls, "decrypt_file") > FirstCall(web.calls, "contains_enc_hash")
    /\ DecryptedFile # NoFile

\* an upload whose digest is not recorded has been refused, salt file present,
\* an earlier decrypted output left as it was
C13_RefusedWitness ==
    /\ web.handler = "decrypt" /\ web.pc = "done" /\ web.status = 400
    /\ web.filename # <<>> /\ SaltStored /\ ~UploadRecorded
    /\ DecryptedFile # NoFile

\* an upload without salt file has been refused
C13_NoSaltWitness ==
    /\ web.handler = "decrypt" /\ web.pc = "done" /\ web.status = 400
    /\ web.filename # <<>> /\ ~SaltStored

\* the job ids schedule_email has returned
ReturnedIds == {Uuid4Str(k) : k \in 1..issued} \cap DOMAIN email_status_db

\* the scheduler holds a job that sends the email of job_id
JobPending(job_id) == \E id \in DOMAIN jobs : jobs[id].job_id = job_id

\* the positions of outbox at which the email of job_id, with its attachment, was accepted
FileMails(job_id) ==
    {k \in 1..Len(outbox) : outbox[k].job_id = job_id /\ outbox[k].attachments # <<>>}

\* the job ids whose cancellation returned "cancelled" before their email was sent
CancelledInTime ==
    {j \in cancelLog \cap ReturnedIds : \A k \in FileMails(j) : outbox[k].late}

\* C14: once cancel_scheduled_email(job_id) has returned "cancelled" for a job
\* id of schedule_email whose email was not yet sent, the scheduler holds no
\* job for it and the original email is never sent.
C14_CancelledNeverSent ==
    \A j \in CancelledInTime : ~JobPending(j) /\ FileMails(j) = {}

\* the email of a cancelled job id was sent after the cancellation returned
C14_SentAfterCancelWitness ==
    \E j \in CancelledInTime :
        /\ FileMails(j) # {}
        /\ email_status_db[j].status = "sent"

\* C15: in every reachable ledger state the chain is non-empty and its first
\* element is the genesis block: index 1, data "Genesis Block",
\* previous_hash "0".
C15_GenesisFirst ==
    /\ Len(chain) >= 1
    /\ chain[1].index = 1
    /\ chain[1].data = GenesisData
    /\ chain[1].previous_hash = <<"0">>

\* two blocks have been appended behind the genesis block
C15_Witness ==
    /\ AllIdle /\ Len(chain) >= 3
    /\ chain[1] = GenesisBlock
    /\ chain[2].data # GenesisData /\ chain[3].data # GenesisData

\* C16: every non-genesis block appended by create_block has the hash of the
\* block that was last when create_block was called as previous_hash, and that
\* block's index plus one as index.
C16_ChainedToTip ==
    \A i \in 2..Len(chain) :
        /\ chainEvt[i].linked
        /\ chain[i].index = chain[i - 1].index + 1

\* a block appended by create_block whose previous_hash is not the hash of the
\* block before it; its index is that block's index plus one
C16_UnlinkedWitness ==
    /\ AllIdle /\ Len(chain) >= 2
    /\ ~chainEvt[2].linked
    /\ chain[2].previous_hash # chain[1].hash
    /\ chain[2].index = chain[1].index + 1

\* the index of every appended block is one more than the index before it
IndexedFromTip == \A i \in 2..Len(chain) : chain[i].index = chain[i - 1].index + 1

\* the canonical hash of block b with nonce n and the hash field empty
HashWithNonce(b, n) == hash_block([b EXCEPT !.nonce = n, !.hash = <<>>])

\* C17: the nonce stored in a block created by create_block is the smallest
\* n >= 0 for which the canonical hash of the block with nonce n has
\* `difficulty` leading zeros, and the stored hash is that canonical hash.
C17_MinimalNonce ==
    \A i \in 1..Len(chain) :
        LET canonical == HashWithNonce(chain[i], chain[i].nonce)
        IN  /\ chain[i].nonce >= 0
            /\ HasZeros(canonical)
            /\ \A n \in 0..(chain[i].nonce - 1) : ~HasZeros(HashWithNonce(chain[i], n))
            /\ chain[i].hash = canonical

\* create_block has appended a block whose search passed over smaller nonces
C17_Witness ==
    /\ AllIdle
    /\ \E i \in 2..Len(chain) :
          /\ chain[i].nonce > 0
          /\ ~HasZeros(HashWithNonce(chain[i], 0))
          /\ ret[MainThread].op = "create_block" /\ ret[MainThread].val = chain[i]

ReadOps == {"verify_chain", "contains_enc_hash", "get_file_history"}

\* thread t returns from a read call in this step
IsReadCall(t) ==
    /\ pc[t] = "idle" /\ pc'[t] = "idle"
    /\ evt' = evt /\ now' = now
    /\ ret'[t].op \in ReadOps

\* C18: verify_chain, contains_enc_hash and get_file_history leave the chain,
\* every block in it and pending_transactions as they were, whatever they
\* return (verify_chain returning False included).
C18_ReadCallsChangeNothing ==
    [][\A t \in Threads :
         IsReadCall(t) => chain' = chain /\ pending_transactions' = pending_transactions]_vars

\* verify_chain has returned False on an invalid chain with pending transactions
C18_Witness ==
    /\ AllIdle
    /\ ret[MainThread].op = "verify_chain" /\ ~ret[MainThread].val
    /\ ~verify_chain(chain) /\ Len(chain) >= 2
    /\ pending_transactions # <<>>

\* the three read calls have returned, on a chain with appended blocks
C18_ReturnsWitness ==
    /\ AllIdle /\ Len(chain) >= 2
    /\ ret[MainThread].op = "get_file_history" /\ ret[MainThread].val # <<>>

\* cancel_scheduled_email(job_id) returns in this step: no job id is drawn,
\* and the step is not the firing of a job, which leaves ret alone and takes
\* a job from the scheduler
IsCancel(job_id) ==
    /\ ret'[MainThread].op = "cancel_scheduled_email"
    /\ ret'[MainThread].arg = job_id
    /\ issued' = issued
    /\ ret' # ret \/ jobs' = jobs

\* C19: when the status record of job_id has status "sent",
\* cancel_scheduled_email(job_id) returns "already_sent", leaves the status
\* record unchanged and sends no cancellation notice.
C19_SentNotCancelled ==
    [][\A job_id \in DOMAIN email_status_db :
         (email_status_db[job_id].status = "sent" /\ IsCancel(job_id)) =>
            /\ ret'[MainThread].val = "already_sent"
            /\ email_status_db' = email_status_db
            /\ outbox' = outbox]_vars

\* a cancellation of a sent email has returned "already_sent"
C19_Witness ==
    /\ ret[MainThread].op = "cancel_scheduled_email"
    /\ ret[MainThread].val = "already_sent"
    /\ email_status_db[ret[MainThread].arg].status = "sent"
    /\ \E k \in 1..Len(outbox) : outbox[k].job_id = ret[MainThread].arg

\* the places of transaction e: positions in pending_transactions, and
\* (block, position) pairs in the chain
InPending(e) == {k \in 1..Len(pendingEvt) : pendingEvt[k] = e}
InBlocks(e) ==
    {p \in (1..Len(chainEvt)) \X (1..MaxCalls) :
        p[2] <= Len(chainEvt[p[1]].txs) /\ chainEvt[p[1]].txs[p[2]] = e}

\* the blocks appended by create_block calls that returned after transaction e was added
BlocksAfter(e) == {i \in 2..Len(chainEvt) : chainEvt[i].blk > e}

\* the history of transactions follows the stored lists, place by place
EvtsMatchStore ==
    /\ Len(pendingEvt) = Len(pending_transactions)
    /\ Len(chainEvt) = Len(chain)
    /\ \A i \in 1..Len(chain) : Len(chainEvt[i].txs) = Len(chain[i].transactions)

\* C20: under sequential use every transaction accepted by add_transaction is
\* recorded exactly once: in no block until the next create_block, in the
\* block appended by that create_block, in no later block and not again in
\* pending_transactions.
C20_RecordedExactlyOnce ==
    /\ EvtsMatchStore
    /\ \A e \in AddEvts :
          /\ Cardinality(InPending(e)) + Cardinality(InBlocks(e)) <= 1
          /\ \A p \in InBlocks(e) :
                /\ p[1] \in BlocksAfter(e)
                /\ \A i \in BlocksAfter(e) : p[1] <= i
          /\ AllIdle => IF BlocksAfter(e) = {}
                        THEN Cardinality(InPending(e)) = 1
                        ELSE Cardinality(InBlocks(e)) = 1

\* a transaction sits in the block of the next create_block, and a later
\* block has been appended without it
C20_Witness ==
    /\ AllIdle
    /\ pending_transactions = <<>>
    /\ \E e \in AddEvts :
          /\ InBlocks(e) # {}
          /\ \E i \in BlocksAfter(e) : \A p \in InBlocks(e) : p[1] < i
          /\ last(chain).transactions = <<>>

\* the encrypted files /encrypt made whose digest is in the chain
RecordedFiles == {k \in kept : contains_enc_hash(chain, hash_file(k.blob))}

\* the salt file /decrypt reads for an upload named filename
SaltFile(filename) == store[ENCRYPTED \o filename \o <<".salt">>]

\* C21: every encrypted file whose digest is recorded stays decryptable
\* through /decrypt with the password of its request: the salt file /decrypt
\* reads for it holds the salt its key was derived with.
C21_RecordedStaysDecryptable ==
    \A k \in RecordedFiles :
        /\ Exists(ENCRYPTED \o k.filename \o <<".salt">>)
        /\ SaltFile(k.filename) = k.salt
        /\ Open(derive_key_from_password(k.password, SaltFile(k.filename)), k.blob).status = "ok"

\* /decrypt has checked a recorded file sent with the password of its
\* /encrypt request, and decrypt_file will refuse it: the salt file holds the
\* salt of a later request for the same name
C21_UndecryptableWitness ==
    /\ web.handler = "decrypt" /\ web.pc = "decrypt" /\ web.recorded
    /\ \E k \in RecordedFiles :
          /\ k.filename = web.filename
          /\ k.blob = store[UPLOADS \o web.filename]
          /\ k.password = web.password
          /\ SaltFile(k.filename) # k.salt
          /\ \A other \in kept :
                (other.blob = k.blob /\ other.password = k.password) => other.salt = k.salt
    /\ Open(web.key, store[UPLOADS \o web.filename]).status = "ValueError"

\* as long as each file name is encrypted once, the salt file of every
\* recorded file holds the salt of its request
C21_OneRequestPerName ==
    (\A k, other \in kept : k.filename = other.filename => k = other) =>
        \A k \in RecordedFiles :
            /\ SaltFile(k.filename) = k.salt
            /\ Open(derive_key_from_password(k.password, k.salt), k.blob).status = "ok"

\* the blocks that record an encryption event
EncryptionBlocks == {i \in 2..Len(chain) : chain[i].data # GenesisData}

\* the /encrypt request just served ended with an error response
EncryptFailed ==
    web.handler = "encrypt" /\ web.pc = "done" /\ web.status \in {400, 500}

\* C22: when /encrypt responds with an error, the request has appended no
\* block; between requests every block recording an encryption event has its
\* scheduled email job.
C22_EncryptAtomic ==
    /\ EncryptFailed => FirstCall(web.calls, "create_block") = 0
    /\ web.pc = "done" =>
          Cardinality(EncryptionBlocks) = Cardinality(DOMAIN email_status_db)

\* /encrypt has answered 500 after create_block appended its block, and no
\* email job exists for the block
C22_BlockWithoutJobWitness ==
    /\ EncryptFailed /\ web.status = 500
    /\ FirstCall(web.calls, "create_block") > 0
    /\ FirstCall(web.calls, "schedule_email") = 0
    /\ contains_enc_hash(chain, hash_file(store[ENCRYPTED \o EncName(web.filename)]))
    /\ Cardinality(EncryptionBlocks) = 1 /\ email_status_db = <<>> /\ jobs = <<>>

TerminalStatuses == {"sent", "failed", "cancelled"}

\* C23: a job id returned by schedule_email starts with status "scheduled";
\* once its status is "sent", "failed" or "cancelled", no later send_email
\* run and no cancel_scheduled_email call changes it.
C23_OneWayLifecycle ==
    [][/\ \A j \in ReturnedIds :
            email_status_db[j].status \in TerminalStatuses =>
                email_status_db'[j].status = email_status_db[j].status
       /\ \A j \in DOMAIN email_status_db' \ DOMAIN email_status_db :
            j = Uuid4Str(issued + 1) => email_status_db'[j].status = "scheduled"]_vars

\* the email of a job id was refused by the mail server, and a later
\* cancellation has replaced the status "failed" by "cancelled"
C23_FailedThenCancelledWitness ==
    \E j \in ReturnedIds :
        /\ "error" \in DOMAIN email_status_db[j]
        /\ email_status_db[j].status = "cancelled"
        /\ ~JobPending(j)

\* the status "sent" of a job id never changes
SentIsFinal ==
    [][\A j \in ReturnedIds :
          email_status_db[j].status = "sent" => email_status_db'[j].status = "sent"]_vars

\* the scheduler runs the job id in this step: the job leaves the
\* scheduler and no call returns
IsFiring(id) == id \in DOMAIN jobs /\ id \notin DOMAIN jobs' /\ ret' = ret

\* C24: whenever the scheduler runs send_email for a job id created by
\* schedule_email, the status record of that job id is "sent" or "failed"
\* when send_email returns, on every outcome.
C24_FiredJobLeavesScheduled ==
    [][\A id \in DOMAIN jobs :
          IsFiring(id) => email_status_db'[jobs[id].job_id].status \in {"sent", "failed"}]_vars

\* a job has fired, nothing was sent, and its record still reads "scheduled"
C24_StillScheduledWitness ==
    \E j \in ReturnedIds :
        /\ ~JobPending(j)
        /\ email_status_db[j].status = "scheduled"
        /\ outbox = <<>>
        /\ ret[MainThread].op = "get_email_status"
        /\ ret[MainThread].arg = j /\ ret[MainThread].val = "scheduled"

\* a run of send_email that reaches its try block leaves "sent" or "failed"
FiredJobMarkedWhenSendTried ==
    [][\A id \in DOMAIN jobs :
          (IsFiring(id) /\ <<email_status_db, outbox>>' # <<email_status_db, outbox>>) =>
              email_status_db'[jobs[id].job_id].status \in {"sent", "failed"}]_vars
====
